---- MODULE Spec2Model ----
(***************************************************************************)
(* Model of the MC2v1 image codec (compressor/core.py) and of the upload   *)
(* view that records compressions (compressor/views.py, models.py).        *)
(*                                                                         *)
(* Bytes are naturals 0..255 and byte strings are sequences of them.       *)
(* Arrays that the source indexes from 0 are functions over 0..n-1.        *)
(***************************************************************************)
EXTENDS Integers, Sequences, FiniteSets, TLC

VARIABLES
    \* quant_matrix exercise: the quality given and the matrix returned
    qQuality, qResult,
    \* zig-zag exercise: a 64-vector, its image, and the image of that
    zIn, zMid, zOut, zPath, zPc,
    \* codec: the arguments of compress_image, the file at out_path before the
    \* call and now, what compress_image returned, the bytes given to decompress_file, how they were
    \* derived from the file, and what decompress_file returned
    cIm, cQuality, cDown, cPrior, cFile, cEnc, cTamper, cInput, cDec, cPc,
    \* compress_view: each request's upload and position, the media folder (the
    \* uploads at tmp_path and the containers at out_path), the rows of
    \* CompressionRecord, and each request's locals and response
    vReq, vPc, vTmp, vOut, vRecords, vLocal, vResp

quantVars == <<qQuality, qResult>>
zigVars   == <<zIn, zMid, zOut, zPath, zPc>>
codecVars == <<cIm, cQuality, cDown, cPrior, cFile, cEnc, cTamper, cInput, cDec, cPc>>
viewVars  == <<vReq, vPc, vTmp, vOut, vRecords, vLocal, vResp>>
vars == <<quantVars, zigVars, codecVars, viewVars>>

NoValue == "none"

(***************************************************************************)
(* Bounds of the model.                                                    *)
(***************************************************************************)
MaxCoef == 2          \* coefficient magnitudes used in zig-zag test vectors
MaxDim == 20          \* largest width and height in SpecBlocks
MaxBase == 2          \* most bytes of base-layer pixel data
NumRequests == 2      \* concurrent compress_view requests

(***************************************************************************)
(* Small arithmetic helpers.                                               *)
(***************************************************************************)
Min(a, b) == IF a <= b THEN a ELSE b
Max(a, b) == IF a >= b THEN a ELSE b

\* Python's a // b (floor division) for b /= 0.
FloorDiv(a, b) == IF b > 0 THEN a \div b ELSE (-a) \div (-b)

\* np.round of the rational n/d, d > 0: nearest integer, halves to even.
RoundHalfEven(n, d) ==
    LET f == n \div d
        r == n % d
    IN  IF 2 * r < d THEN f
        ELSE IF 2 * r > d THEN f + 1
        ELSE IF f % 2 = 0 THEN f ELSE f + 1

\* np.clip(x, lo, hi)
Clip(x, lo, hi) == Max(lo, Min(x, hi))

(***************************************************************************)
(* core.py: constants.                                                     *)
(***************************************************************************)
\* MAGIC = b"MC2v1"
MAGIC == <<77, 67, 50, 118, 49>>

\* _Q50, flattened row-major; cell (i, j) is Q50[8*i + j + 1].
Q50 == <<16, 11, 10, 16,  24,  40,  51,  61,
         12, 12, 14, 19,  26,  58,  60,  55,
         14, 13, 16, 24,  40,  57,  69,  56,
         14, 17, 22, 29,  51,  87,  80,  62,
         18, 22, 37, 56,  68, 109, 103,  77,
         24, 35, 55, 64,  81, 104, 113,  92,
         49, 64, 78, 87, 103, 121, 120, 101,
         72, 92, 95, 98, 112, 100, 103,  99>>

Cells == 0..63

\* _ZIGZAG_IDX, as an array indexed from 0.
ZIGZAG_IDX_bad ==
    LET t == << 0,  1,  5,  6, 14, 15, 27, 28,
                2,  4,  7, 13, 16, 26, 29, 42,
                3,  8, 12, 17, 25, 30, 41, 43,
                9, 11, 18, 24, 31, 40, 44, 53,
               10, 19, 23, 32, 39, 45, 52, 54,
               20, 22, 33, 38, 46, 51, 55, 60,
               21, 34, 37, 47, 50, 56, 59, 61,
               35, 36, 48, 49, 57, 58, 62, 62>>
    IN  [k \in Cells |-> t[k + 1]]

ZIGZAG_IDX ==
    LET t == << 0,  1,  5,  6, 14, 15, 27, 28,
                2,  4,  7, 13, 16, 26, 29, 42,
                3,  8, 12, 17, 25, 30, 41, 43,
                9, 11, 18, 24, 31, 40, 44, 53,
               10, 19, 23, 32, 39, 45, 52, 54,
               20, 22, 33, 38, 46, 51, 55, 60,
               21, 34, 37, 47, 50, 56, 59, 61,
               35, 36, 48, 49, 57, 58, 62, 63>>
    IN  [k \in Cells |-> t[k + 1]]

\* np.argsort(a) for an array a indexed 0..n-1: position k of the result holds
\* the index of the element of rank k (ties broken by index).
ArgSort(a) ==
    LET Before(x, y) == a[x] < a[y] \/ (a[x] = a[y] /\ x < y)
        Rank(y) == Cardinality({x \in DOMAIN a : Before(x, y)})
    IN  [k \in DOMAIN a |-> CHOOSE y \in DOMAIN a : Rank(y) = k]

\* _ZIGZAG_POS = np.argsort(_ZIGZAG_IDX)
ZIGZAG_POS == ArgSort(ZIGZAG_IDX)

\* Encoder gather, q.flatten()[_ZIGZAG_POS]: out[k] = flat[POS[k]].
Gather(flat) == [k \in Cells |-> flat[ZIGZAG_POS[k]]]

\* Decoder scatter, q = zeros(64); q[_ZIGZAG_POS] = flat: q[POS[k]] = flat[k].
\* A slot no POS[k] names keeps its zero; a slot named twice keeps the last write.
Scatter(flat) ==
    [p \in Cells |->
        LET ks == {k \in Cells : ZIGZAG_POS[k] = p}
        IN  IF ks = {} THEN 0
            ELSE flat[CHOOSE k \in ks : \A k2 \in ks : k2 <= k]]

\* quant_matrix(quality): st "ok" with the matrix m flattened row-major and
\* indexed from 0, or st "error"
\* for the ZeroDivisionError of 50.0 / quality.  scale is kept as the rational
\* num/den; the source computes in float32, which can only differ from this on
\* exact halves.
quant_scale(quality) ==
    IF quality < 50
        THEN IF quality > 0 THEN [num |-> 50, den |-> quality]
                            ELSE [num |-> -50, den |-> -quality]
        ELSE [num |-> 100 - quality, den |-> 50]

quant_matrix_noclip(quality) ==
    IF quality = 0 THEN [st |-> "error"]
    ELSE LET s == quant_scale(quality)
         IN  [st |-> "ok",
              m |-> [c \in Cells |-> RoundHalfEven(Q50[c + 1] * s.num, s.den)]]

quant_matrix(quality) ==
    IF quality = 0 THEN [st |-> "error"]
    ELSE LET s == quant_scale(quality)
         IN  [st |-> "ok",
              m |-> [c \in Cells |->
                        Clip(RoundHalfEven(Q50[c + 1] * s.num, s.den), 1, 255)]]

(***************************************************************************)
(* core.py: serialization helpers.                                         *)
(***************************************************************************)
\* Integers of the model stay below IntCap; a length field that decodes to
\* more reads as IntCap, which is past the end of every file of the model.
IntCap == 4096 * 1024

\* struct.pack of one big-endian unsigned field of k bytes.
RECURSIVE BE(_, _)
BE(n, k) == IF k = 0 THEN <<>> ELSE BE(n \div 256, k - 1) \o <<n % 256>>

\* struct.unpack of one big-endian unsigned field.
FromBE(b) ==
    LET F[x \in 0..Len(b)] ==
            IF x = 0 THEN 0 ELSE Min(IntCap, 256 * F[x - 1] + b[x])
    IN  F[Len(b)]

\* f.read(n) on a file object at offset pos: at most n bytes, fewer at the end.
Read(f, pos, n) == SubSeq(f, pos + 1, Min(pos + n, Len(f)))

\* struct.calcsize(">II4B Q"), and the header with MAGIC before it.
HeaderFmtSize == 20
HeaderSize == 25

\* _pack_header: struct.pack raises struct.error on a value outside its field.
\* (The upper limits 2^32 - 1 of w and h and 2^64 - 1 of base_len are above
\* IntCap.)
pack_header_swapped(w, h, channels, block_size, down, quality, base_len) ==
    IF \/ w < 0 \/ h < 0 \/ base_len < 0
       \/ channels \notin 0..255 \/ block_size \notin 0..255
       \/ down \notin 0..255 \/ quality \notin 0..255
        THEN [st |-> "error"]
        ELSE [st |-> "ok",
              bytes |-> MAGIC \o BE(h, 4) \o BE(w, 4)
                          \o <<channels, block_size, quality, down>> \o BE(base_len, 8)]

pack_header(w, h, channels, block_size, down, quality, base_len) ==
    IF \/ w < 0 \/ h < 0 \/ base_len < 0
       \/ channels \notin 0..255 \/ block_size \notin 0..255
       \/ down \notin 0..255 \/ quality \notin 0..255
        THEN [st |-> "error"]
        ELSE [st |-> "ok",
              bytes |-> MAGIC \o BE(w, 4) \o BE(h, 4)
                          \o <<channels, block_size, down, quality>> \o BE(base_len, 8)]

\* _unpack_header on a file object at offset 0: ValueError on a wrong magic,
\* struct.error on a short buffer.
unpack_header_nomagic(f) ==
    LET buf == Read(f, Len(MAGIC), HeaderFmtSize)
    IN  IF Len(buf) /= HeaderFmtSize THEN [st |-> "error", why |-> "short header"]
        ELSE [st |-> "ok",
              w |-> FromBE(SubSeq(buf, 1, 4)), h |-> FromBE(SubSeq(buf, 5, 8)),
              channels |-> buf[9], block_size |-> buf[10],
              down |-> buf[11], quality |-> buf[12],
              base_len |-> FromBE(SubSeq(buf, 13, 20))]

unpack_header(f) ==
    LET magic == Read(f, 0, Len(MAGIC))
        buf == Read(f, Len(MAGIC), HeaderFmtSize)
    IN  IF magic /= MAGIC THEN [st |-> "error", why |-> "Not an MC2v1 file"]
        ELSE IF Len(buf) /= HeaderFmtSize THEN [st |-> "error", why |-> "short header"]
        ELSE [st |-> "ok",
              w |-> FromBE(SubSeq(buf, 1, 4)), h |-> FromBE(SubSeq(buf, 5, 8)),
              channels |-> buf[9], block_size |-> buf[10],
              down |-> buf[11], quality |-> buf[12],
              base_len |-> FromBE(SubSeq(buf, 13, 20))]

(***************************************************************************)
(* core.py: blocks.                                                        *)
(***************************************************************************)
\* range(start, stop, step) for step > 0, as a sequence.
Range(start, stop, step) ==
    LET n == IF stop > start THEN (stop - start + step - 1) \div step ELSE 0
    IN  [k \in 1..n |-> start + (k - 1) * step]

\* The nested loops "for i in is: for j in js", flattened in execution order.
Nested(is, js) ==
    LET ni == Len(is)
        nj == Len(js)
    IN  [k \in 1..(ni * nj) |-> [i |-> is[((k - 1) \div nj) + 1],
                                 j |-> js[((k - 1) % nj) + 1]]]

NestedColumnMajor(is, js) ==
    LET ni == Len(is)
        nj == Len(js)
    IN  [k \in 1..(ni * nj) |-> [i |-> is[((k - 1) % ni) + 1],
                                 j |-> js[((k - 1) \div ni) + 1]]]

\* _blockify: the origins (i, j) of the blocks it yields, in yield order.
blockify_colmajor(H, W, block) ==
    LET H2 == ((H + block - 1) \div block) * block
        W2 == ((W + block - 1) \div block) * block
    IN  NestedColumnMajor(Range(0, H2, block), Range(0, W2, block))

blockify(H, W, block) ==
    LET H2 == ((H + block - 1) \div block) * block
        W2 == ((W + block - 1) \div block) * block
    IN  Nested(Range(0, H2, block), Range(0, W2, block))

\* The 64 quantised coefficients of the block at origin (i, j) are not
\* computed; a coefficient row is the two bytes naming the block it was
\* computed from.
CoefRow(i, j) == <<(i \div 8) % 256, (j \div 8) % 256>>
CoefRowWidth == Len(CoefRow(0, 0))

\* compress_image, lines 118-133: the (N, 64) array of one channel.
channel_coefs(H, W, block_size) ==
    LET blocks == blockify(H, W, block_size)
    IN  [k \in 1..Len(blocks) |-> CoefRow(blocks[k].i, blocks[k].j)]

(***************************************************************************)
(* Library formats, as far as the codec depends on them.                   *)
(***************************************************************************)
\* The sum of b[lo..hi] modulo 256, by halves.
RECURSIVE SumRange(_, _, _)
SumRange(b, lo, hi) ==
    IF lo > hi THEN 0
    ELSE IF lo = hi THEN b[lo] % 256
    ELSE LET mid == (lo + hi) \div 2
         IN  (SumRange(b, lo, mid) + SumRange(b, mid + 1, hi)) % 256

SumBytes(b) == SumRange(b, 1, Len(b))

\* One array of an .npz archive: its row count, then its rows.
NpyShapeSize == 2
NpySave(rows) ==
    BE(Len(rows), NpyShapeSize) \o
    [x \in 1..(CoefRowWidth * Len(rows)) |->
        rows[((x - 1) \div CoefRowWidth) + 1][((x - 1) % CoefRowWidth) + 1]]

\* np.savez_compressed(r=, g=, b=)
NpzSave(r, g, b) == NpySave(r) \o NpySave(g) \o NpySave(b)

\* np.load and npz["r"], npz["g"], npz["b"]: the three arrays, or an error when
\* the bytes are not an archive of three arrays.
NpzLoad(bytes) ==
    LET ArrayAt(pos) ==
            LET shape == Read(bytes, pos, NpyShapeSize)
                n == FromBE(shape)
                body == Read(bytes, pos + NpyShapeSize, CoefRowWidth * n)
            IN  IF Len(shape) /= NpyShapeSize \/ Len(body) /= CoefRowWidth * n
                    THEN [st |-> "error"]
                    ELSE [st |-> "ok",
                          next |-> pos + NpyShapeSize + CoefRowWidth * n,
                          rows |-> [k \in 1..n |->
                                      SubSeq(body, CoefRowWidth * (k - 1) + 1,
                                             CoefRowWidth * k)]]
        r == ArrayAt(0)
        g == ArrayAt(r.next)
        b == ArrayAt(g.next)
    IN  IF r.st /= "ok" THEN [st |-> "error"]
        ELSE IF g.st /= "ok" THEN [st |-> "error"]
        ELSE IF b.st /= "ok" THEN [st |-> "error"]
        ELSE IF b.next /= Len(bytes) THEN [st |-> "error"]
        ELSE [st |-> "ok", r |-> r.rows, g |-> g.rows, b |-> b.rows]

\* zlib.compress(data, level=6): the two header bytes 0x78 0x9C, the deflated
\* data (kept as it is), and a check value over the data.
ZlibCompress(data) == <<120, 156>> \o data \o <<SumBytes(data)>>

\* zlib.decompress: zlib.error on a wrong header, an incomplete stream or a
\* wrong check value.
ZlibDecompress(p) ==
    IF Len(p) < 3 THEN [st |-> "error"]
    ELSE IF p[1] /= 120 \/ p[2] /= 156 THEN [st |-> "error"]
    ELSE LET data == SubSeq(p, 3, Len(p) - 1)
         IN  IF p[Len(p)] /= SumBytes(data) THEN [st |-> "error"]
             ELSE [st |-> "ok", data |-> data]

\* base.save(buf, format="PNG"): the signature's first byte 0x89, the pixel
\* data (kept as it is), and the last byte 0x82 of the IEND chunk.
PngSave(px) == <<137>> \o px \o <<130>>

\* Image.open(...).convert("RGB") of PNG bytes.
PngOpen(b) ==
    IF Len(b) < 3 THEN [st |-> "error"]
    ELSE IF b[1] /= 137 \/ b[Len(b)] /= 130 THEN [st |-> "error"]
    ELSE [st |-> "ok", px |-> SubSeq(b, 2, Len(b) - 1)]

(***************************************************************************)
(* core.py: compress_image.                                                *)
(*                                                                         *)
(* im is the uploaded file: valid (Image.open can read it), its size in    *)
(* bytes, the raster's w and h, and px, the pixel data of its base layer.  *)
(* file is the file at out_path before the call.  The result carries the   *)
(* file at out_path after the call, and the coefficient arrays for         *)
(* observation.                                                            *)
(***************************************************************************)
CHANNELS == 3
BLOCK_SIZE == 8
PayloadLenSize == 8

\* Lines 151-157: what is written to the opened file.
mux_short_len(header, base_bytes, payload) ==
    header \o base_bytes \o BE(Len(payload), 4) \o payload

mux(header, base_bytes, payload) ==
    header \o base_bytes \o BE(Len(payload), PayloadLenSize) \o payload

NoCoefs == <<>>

compress_image(im, file, quality, down) ==
    LET Fail(f) == [st |-> "error", file |-> f, stats |-> <<>>, coefs |-> NoCoefs]
    IN
    IF ~im.valid THEN Fail(file)                       \* line 93
    ELSE IF down = 0 THEN Fail(file)                   \* line 98, ZeroDivisionError
    ELSE
    LET base_w == FloorDiv(im.w, down)
        base_h == FloorDiv(im.h, down)
    IN
    IF base_w < 1 \/ base_h < 1 THEN Fail(file)        \* line 99, resize to no pixels
    ELSE
    LET base_bytes == PngSave(im.px)
        base_len == Len(base_bytes)
        Q == quant_matrix(quality)
    IN
    IF Q.st /= "ok" THEN Fail(file)                    \* line 112
    ELSE
    LET coef == channel_coefs(im.h, im.w, BLOCK_SIZE)
        coef_arrays == <<coef, coef, coef>>
        arr_bytes == NpzSave(coef_arrays[1], coef_arrays[2], coef_arrays[3])
        compressed_payload == ZlibCompress(arr_bytes)
        opened == [exists |-> TRUE, data |-> <<>>]     \* line 151, open(.., "wb")
        header == pack_header(im.w, im.h, CHANNELS, BLOCK_SIZE, down, quality, base_len)
    IN
    IF header.st /= "ok" THEN Fail(opened)             \* line 152
    ELSE
    LET written == mux(header.bytes, base_bytes, compressed_payload)
    IN  [st |-> "ok",
         file |-> [exists |-> TRUE, data |-> written],
         stats |-> [original_bytes |-> im.size,
                    base_bytes |-> base_len,
                    payload_bytes |-> Len(compressed_payload),
                    out_bytes |-> Len(written),
                    w |-> im.w, h |-> im.h, down |-> down, quality |-> quality],
         coefs |-> coef_arrays]

(***************************************************************************)
(* core.py: decompress_file on a file object holding the bytes f.          *)
(***************************************************************************)
\* rebuild_channel: the blocks it writes, in loop order, each with its origin
\* (i, j) and the coefficient row it was rebuilt from.  IndexError when the
\* array has no row idx; ValueError when the 8x8 block does not fit the slice
\* recon_padded[i:i+8, j:j+8].
rebuild_channel(coef_array, block_size, blocks_per_row, blocks_per_col) ==
    LET Hp == blocks_per_col * block_size
        Wp == blocks_per_row * block_size
        pos == Nested(Range(0, Hp, block_size), Range(0, Wp, block_size))
        Bad(k) == \/ k > Len(coef_array)
                  \/ Min(8, Hp - pos[k].i) /= 8
                  \/ Min(8, Wp - pos[k].j) /= 8
    IN  IF \E k \in 1..Len(pos) : Bad(k) THEN [st |-> "error"]
        ELSE [st |-> "ok",
              placed |-> [k \in 1..Len(pos) |->
                            [i |-> pos[k].i, j |-> pos[k].j, row |-> coef_array[k]]]]

decompress_file(f) ==
    LET Fail(why) == [st |-> "error", why |-> why]
        header == unpack_header(f)
    IN
    IF header.st /= "ok" THEN Fail(header.why)                      \* line 175
    ELSE
    LET w == header.w
        h == header.h
        block_size == header.block_size
        base_len == header.base_len
        base_bytes == Read(f, HeaderSize, base_len)
        after_base == HeaderSize + Len(base_bytes)
        payload_len_bytes == Read(f, after_base, PayloadLenSize)
    IN
    IF Len(payload_len_bytes) /= PayloadLenSize THEN Fail("short payload length")  \* line 183
    ELSE
    LET payload_len == FromBE(payload_len_bytes)
        payload == Read(f, after_base + PayloadLenSize, payload_len)
        arr_bytes == ZlibDecompress(payload)
    IN
    IF arr_bytes.st /= "ok" THEN Fail("zlib")                       \* line 187
    ELSE
    LET npz == NpzLoad(arr_bytes.data)
    IN
    IF npz.st /= "ok" THEN Fail("npz")                              \* lines 189-193
    ELSE IF quant_matrix(header.quality).st /= "ok" THEN Fail("quant_matrix")  \* line 196
    ELSE IF block_size = 0 THEN Fail("block_size")                  \* line 198
    ELSE
    LET blocks_per_row == (w + block_size - 1) \div block_size
        blocks_per_col == (h + block_size - 1) \div block_size
        rec_r == rebuild_channel(npz.r, block_size, blocks_per_row, blocks_per_col)
        rec_g == rebuild_channel(npz.g, block_size, blocks_per_row, blocks_per_col)
        rec_b == rebuild_channel(npz.b, block_size, blocks_per_row, blocks_per_col)
        base_img == PngOpen(base_bytes)
    IN
    IF rec_r.st /= "ok" \/ rec_g.st /= "ok" \/ rec_b.st /= "ok"
        THEN Fail("rebuild_channel")                                \* lines 220-222
    ELSE IF base_img.st /= "ok" THEN Fail("base layer")             \* line 225
    ELSE IF w < 1 \/ h < 1 THEN Fail("resize")                      \* line 226
    ELSE [st |-> "ok",
          raster |-> [w |-> w, h |-> h, base |-> base_img.px,
                      planes |-> <<rec_r.placed, rec_g.placed, rec_b.placed>>],
          stats |-> [w |-> w, h |-> h,
                     down |-> header.down, quality |-> header.quality]]

(***************************************************************************)
(* States in which a part of the model is not exercised.                   *)
(***************************************************************************)
ZeroVec == [k \in Cells |-> 0]
NoFile == [exists |-> FALSE, data |-> <<>>]
NoImage == [valid |-> FALSE, size |-> 0, w |-> 1, h |-> 1, px |-> <<>>]

QuantIdle == qQuality = 0 /\ qResult = [st |-> NoValue]

ZigIdle == /\ zIn = <<>> /\ zMid = <<>> /\ zOut = <<>>
           /\ zPath = NoValue /\ zPc = "idle"

CodecIdle == /\ cIm = NoImage /\ cQuality = 50 /\ cDown = 2
             /\ cPrior = NoFile /\ cFile = NoFile
             /\ cEnc = [st |-> NoValue] /\ cTamper = NoValue /\ cInput = <<>>
             /\ cDec = [st |-> NoValue] /\ cPc = "idle"

ViewIdle == /\ vReq = <<>> /\ vPc = <<>> /\ vTmp = <<>> /\ vOut = <<>>
            /\ vRecords = <<>> /\ vLocal = <<>> /\ vResp = <<>>

(***************************************************************************)
(* Specification SpecQuant: quant_matrix applied to a quality drawn from   *)
(* QualityInputs.                                                          *)
(***************************************************************************)
QualityInputs == -2..102

InitQuant ==
    /\ qQuality \in QualityInputs
    /\ qResult = [st |-> NoValue]
    /\ ZigIdle /\ CodecIdle /\ ViewIdle

QuantMatrix ==
    /\ qResult.st = NoValue
    /\ qResult' = quant_matrix(qQuality)
    /\ UNCHANGED <<qQuality, zigVars, codecVars, viewVars>>

NextQuant == QuantMatrix
SpecQuant == InitQuant /\ [][NextQuant]_vars

\* C7: for every quality in [1,100] every cell of quant_matrix(quality) lies in
\* [1,255], and quant_matrix(100) is the all-ones matrix.
C7_QuantClamp ==
    (qResult.st /= NoValue /\ qQuality \in 1..100) =>
        /\ qResult.st = "ok"
        /\ \A c \in Cells : qResult.m[c] \in 1..255
        /\ qQuality = 100 => \A c \in Cells : qResult.m[c] = 1

\* quant_matrix(100) has been computed: every product is 0 and is raised to 1.
C7_Witness ==
    /\ qQuality = 100 /\ qResult.st = "ok"
    /\ \A c \in Cells : qResult.m[c] = 1

(***************************************************************************)
(* Specification SpecZigzag: one 64-vector taken through gather then       *)
(* scatter (path "gs", the encoder followed by the decoder) or scatter     *)
(* then gather (path "sg").                                                *)
(***************************************************************************)
OneHot(a, v) == [k \in Cells |-> IF k = a THEN v ELSE 0]
Ramp(s) == [k \in Cells |-> s * (k + 1)]

ZigInputs ==
    {OneHot(a, v) : a \in Cells, v \in ((-MaxCoef)..MaxCoef) \ {0}}
        \cup {Ramp(s) : s \in ((-MaxCoef)..MaxCoef) \ {0}}

InitZigzag ==
    /\ zIn \in ZigInputs
    /\ zPath \in {"gs", "sg"}
    /\ zMid = ZeroVec /\ zOut = ZeroVec /\ zPc = "start"
    /\ QuantIdle /\ CodecIdle /\ ViewIdle

ZigFirst ==
    /\ zPc = "start"
    /\ zMid' = IF zPath = "gs" THEN Gather(zIn) ELSE Scatter(zIn)
    /\ zPc' = "mid"
    /\ UNCHANGED <<zIn, zOut, zPath, quantVars, codecVars, viewVars>>

ZigSecond ==
    /\ zPc = "mid"
    /\ zOut' = IF zPath = "gs" THEN Scatter(zMid) ELSE Gather(zMid)
    /\ zPc' = "done"
    /\ UNCHANGED <<zIn, zMid, zPath, quantVars, codecVars, viewVars>>

NextZigzag == ZigFirst \/ ZigSecond
SpecZigzag == InitZigzag /\ [][NextZigzag]_vars

\* C8: _ZIGZAG_IDX is a permutation of 0..63, _ZIGZAG_POS is its inverse, and
\* scatter after gather, and gather after scatter, return the 64-vector they
\* started from.
C8_ZigzagInverse ==
    /\ {ZIGZAG_IDX[k] : k \in Cells} = Cells
    /\ \A k \in Cells : ZIGZAG_POS[ZIGZAG_IDX[k]] = k
    /\ zPc = "done" => zOut = zIn

\* A vector whose zig-zag image differs from it has been taken there and back.
C8_Witness ==
    /\ zPc = "done" /\ zPath = "gs"
    /\ zMid /= zIn /\ zOut = zIn

(***************************************************************************)
(* The codec's operations.                                                 *)
(***************************************************************************)
\* compress_image(path, quality, down)
Compress ==
    /\ cPc = "start"
    /\ LET r == compress_image(cIm, cFile, cQuality, cDown)
       IN  /\ cEnc' = [st |-> r.st, stats |-> r.stats, coefs |-> r.coefs]
           /\ cFile' = r.file
    /\ cPc' = "encoded"
    /\ UNCHANGED <<cIm, cQuality, cDown, cPrior, cTamper, cInput, cDec, quantVars, zigVars, viewVars>>

\* The bytes handed to decompress_file: the file at out_path, as it is or
\* damaged in one place.
Present(kind, bytes) ==
    /\ cPc = "encoded"
    /\ cTamper' = kind
    /\ cInput' = bytes
    /\ cPc' = "presented"
    /\ UNCHANGED <<cIm, cQuality, cDown, cPrior, cFile, cEnc, cDec, quantVars, zigVars, viewVars>>

Emitted == cEnc.st = "ok"
BaseLenOf(f) == FromBE(SubSeq(f, 18, 25))
DropByte(f, at) == SubSeq(f, 1, at - 1) \o SubSeq(f, at + 1, Len(f))
SetByte(f, at, v) == [f EXCEPT ![at] = v]

PresentIntact ==
    /\ cFile.exists
    /\ Present("intact", cFile.data)

MagicFlips(k) == {(MAGIC[k] + d) % 256 : d \in {1, 128, 255}} \cup {88}

FlipMagic ==
    /\ Emitted
    /\ \E k \in 1..Len(MAGIC) : \E v \in MagicFlips(k) \ {MAGIC[k]} :
          Present("magic", SetByte(cFile.data, k, v))

\* The file ends one byte before the end of the header.
TruncateHeader ==
    /\ Emitted
    /\ Present("header cut", SubSeq(cFile.data, 1, HeaderSize - 1))

\* The header has lost its last byte and the rest of the file follows.
DropHeaderByte ==
    /\ Emitted
    /\ Present("header short", DropByte(cFile.data, HeaderSize))

\* The file ends one byte before the end of the base layer.
TruncateBase ==
    /\ Emitted
    /\ Present("base cut",
               SubSeq(cFile.data, 1, HeaderSize + BaseLenOf(cFile.data) - 1))

\* The base layer has lost its last byte and the rest of the file follows.
DropBaseByte ==
    /\ Emitted
    /\ Present("base short",
               DropByte(cFile.data, HeaderSize + BaseLenOf(cFile.data)))

\* The payload, the last section of the file, has lost its last byte.
TruncatePayload ==
    /\ Emitted
    /\ Present("payload cut", SubSeq(cFile.data, 1, Len(cFile.data) - 1))

Trailers == {<<0>>, <<77, 67>>, <<120, 156, 0>>}

AppendTrailing ==
    /\ Emitted
    /\ \E t \in Trailers : Present("trailing", cFile.data \o t)

OtherChannels == {0, 1, 4}
OtherBlockSizes == {0, 4, 7, 9, 16}

SetChannels ==
    /\ Emitted
    /\ \E c \in OtherChannels : Present("channels", SetByte(cFile.data, 14, c))

SetBlockSize ==
    /\ Emitted
    /\ \E b \in OtherBlockSizes : Present("block_size", SetByte(cFile.data, 15, b))

\* decompress_file(fobj)
Decompress ==
    /\ cPc = "presented"
    /\ cDec' = decompress_file(cInput)
    /\ cPc' = "decoded"
    /\ UNCHANGED <<cIm, cQuality, cDown, cPrior, cFile, cEnc, cTamper, cInput, quantVars, zigVars, viewVars>>

RECURSIVE SeqsUpTo(_, _)
SeqsUpTo(S, n) ==
    IF n = 0 THEN {<<>>}
    ELSE LET shorter == SeqsUpTo(S, n - 1)
         IN  shorter \cup {Append(q, x) : q \in shorter, x \in S}

BasePixels == SeqsUpTo({0, 255}, MaxBase) \ {<<>>}
PriorFiles == {NoFile, [exists |-> TRUE, data |-> <<1>>]}

(***************************************************************************)
(* Specification SpecCodec: one compress_image call on an input drawn from *)
(* the sets below, then one decompress_file call on the file it left or on *)
(* a damaged copy of it.                                                   *)
(***************************************************************************)
CodecDims == {1, 8, 9} \X {1, 8, 9}
\* A raster large enough for the largest down that fits the header's byte.
LargeDims == {<<256, 256>>}
CodecQualities == {-1, 0, 1, 50, 100, 101, 255, 256}
CodecDowns == {-1, 0, 1, 2, 9, 255, 256}

CodecImages ==
    {[valid |-> valid, size |-> 64, w |-> d[1], h |-> d[2], px |-> px] :
        valid \in BOOLEAN, d \in CodecDims, px \in BasePixels}
    \cup {[valid |-> TRUE, size |-> 64, w |-> d[1], h |-> d[2], px |-> <<0>>] :
            d \in LargeDims}

InitCodec ==
    /\ cIm \in CodecImages
    /\ cQuality \in CodecQualities
    /\ cDown \in CodecDowns
    /\ cPrior \in PriorFiles
    /\ cFile = cPrior
    /\ cEnc = [st |-> NoValue] /\ cTamper = NoValue /\ cInput = <<>>
    /\ cDec = [st |-> NoValue] /\ cPc = "start"
    /\ QuantIdle /\ ZigIdle /\ ViewIdle

NextCodec ==
    \/ Compress
    \/ PresentIntact \/ FlipMagic
    \/ TruncateHeader \/ DropHeaderByte
    \/ TruncateBase \/ DropBaseByte
    \/ TruncatePayload \/ AppendTrailing
    \/ SetChannels \/ SetBlockSize
    \/ Decompress

SpecCodec == InitCodec /\ [][NextCodec]_vars

\* The fields of the file compress_image left at out_path.
FileBaseLen == BaseLenOf(cFile.data)
FilePayloadLen ==
    FromBE(SubSeq(cFile.data, HeaderSize + FileBaseLen + 1,
                  HeaderSize + FileBaseLen + PayloadLenSize))
FileHeader == unpack_header(SubSeq(cFile.data, 1, HeaderSize))

\* C1: after a successful compress_image the file is exactly 25 + base_len + 8
\* + payload_len bytes long, base_len being the header's field and payload_len
\* the 8-byte prefix after the base layer, and the stats report the same
\* numbers: out_bytes = 25 + base_bytes + 8 + payload_bytes.
C1_LengthFraming ==
    cEnc.st = "ok" =>
        /\ Len(cFile.data) = 25 + FileBaseLen + 8 + FilePayloadLen
        /\ cEnc.stats.base_bytes = FileBaseLen
        /\ cEnc.stats.payload_bytes = FilePayloadLen
        /\ cEnc.stats.out_bytes = 25 + cEnc.stats.base_bytes + 8 + cEnc.stats.payload_bytes

\* A container whose payload length needs more than one byte of its prefix.
C1_Witness ==
    /\ cEnc.st = "ok"
    /\ cEnc.stats.payload_bytes > 255
    /\ cEnc.stats.out_bytes = Len(cFile.data)

HeaderReproduces ==
    /\ cEnc.st = "ok"
    /\ SubSeq(cFile.data, 1, 5) = <<77, 67, 50, 118, 49>>
    /\ FileHeader.st = "ok"
    /\ FileHeader.w = cIm.w /\ FileHeader.h = cIm.h
    /\ FileHeader.down = cDown /\ FileHeader.quality = cQuality
    /\ FileHeader.channels = 3 /\ FileHeader.block_size = 8

\* C2 as claimed: for every readable raster with W, H >= 1, every down >= 1
\* and every quality in [1,100], encoding succeeds and the first 25 bytes parse
\* back to W, H, down, quality, magic "MC2v1", channels 3 and block_size 8.
C2_AnyPositiveDown ==
    (/\ cPc /= "start" /\ cIm.valid /\ cIm.w >= 1 /\ cIm.h >= 1
     /\ cDown >= 1 /\ cQuality \in 1..100) => HeaderReproduces

\* C2 amended: the same for every down with 1 <= down <= min(W, H, 255), that
\* is, a down that leaves the base layer at least one pixel each way and fits
\* the header's byte.
C2_HeaderRoundTrip ==
    (/\ cPc /= "start" /\ cIm.valid /\ cIm.w >= 1 /\ cIm.h >= 1
     /\ cDown >= 1 /\ cDown <= cIm.w /\ cDown <= cIm.h /\ cDown <= 255
     /\ cQuality \in 1..100) => HeaderReproduces

\* The largest down that fits, with a width that needs two bytes of its field.
C2_Witness ==
    /\ cPc = "encoded" /\ cDown = 255 /\ cQuality = 100 /\ cIm.w = 256
    /\ HeaderReproduces

\* C3: decompress_file fails, and returns no raster, on a container whose
\* header carries channels /= 3 or block_size /= 8 and that is well-formed
\* otherwise.
C3_RejectsChannelsAndBlockSize ==
    (cPc = "decoded" /\ cTamper \in {"channels", "block_size"}) => cDec.st = "error"

Damaged == {"magic", "header cut", "header short", "base cut", "base short",
            "payload cut"}

\* C4: decompress_file fails, and returns no raster, on an encoder output with
\* one magic byte changed or with its header, base layer or payload one byte
\* short; bytes after the payload are ignored, the result being that of the
\* output itself.
C4_MalformedRejected ==
    cPc = "decoded" =>
        /\ cTamper \in Damaged => (cDec.st = "error" /\ "raster" \notin DOMAIN cDec)
        /\ cTamper = "trailing" =>
              (cDec.st = "ok" /\ cDec = decompress_file(cFile.data))

\* A base layer one byte short has been refused.
C4_Witness ==
    /\ cPc = "decoded" /\ cTamper = "base short"
    /\ Len(cInput) = Len(cFile.data) - 1
    /\ cDec.st = "error"

\* C5: compress_image with quality outside [1,100] or down < 1 fails and
\* leaves no container; no container carries a quality byte outside [1,100] or
\* a down byte of 0.
C5_RejectsUnsupported ==
    /\ (cPc /= "start" /\ (cQuality \notin 1..100 \/ cDown < 1)) =>
          (cEnc.st = "error" /\ Len(cFile.data) < HeaderSize)
    /\ cEnc.st = "ok" => (FileHeader.quality \in 1..100 /\ FileHeader.down /= 0)

\* C6: a compress_image call that ends in an error has neither created nor
\* modified the file at out_path, and a call that returns leaves a complete
\* container there.
C6_AtomicOutput ==
    /\ cEnc.st = "error" => cFile = cPrior
    /\ cEnc.st = "ok" => decompress_file(cFile.data).st = "ok"

(***************************************************************************)
(* Specification SpecBlocks: every raster size up to MaxDim encoded with   *)
(* the default parameters and decoded from the file as written.            *)
(***************************************************************************)
InitBlocks ==
    /\ \E w \in 1..MaxDim : \E h \in 1..MaxDim :
          cIm = [valid |-> TRUE, size |-> 64, w |-> w, h |-> h, px |-> <<0>>]
    /\ cQuality = 50
    /\ cDown = 1
    /\ cPrior = NoFile /\ cFile = NoFile
    /\ cEnc = [st |-> NoValue] /\ cTamper = NoValue /\ cInput = <<>>
    /\ cDec = [st |-> NoValue] /\ cPc = "start"
    /\ QuantIdle /\ ZigIdle /\ ViewIdle

NextBlocks == Compress \/ PresentIntact \/ Decompress

SpecBlocks == InitBlocks /\ [][NextBlocks]_vars

BlocksAcross(n) == (n + 7) \div 8

\* C9: the encoder emits, for each channel, N = ceil(H/8) * ceil(W/8) rows in
\* row-major block order; the decoder, from the header's width and height,
\* rebuilds N blocks, block k from row k, at the origin of the block the
\* encoder computed row k from, and never reads past row N - 1.
C9_BlockOrder ==
    LET N == BlocksAcross(cIm.h) * BlocksAcross(cIm.w)
        Origin(k) == [i |-> 8 * ((k - 1) \div BlocksAcross(cIm.w)),
                      j |-> 8 * ((k - 1) % BlocksAcross(cIm.w))]
    IN  /\ cPc /= "start" =>
              /\ cEnc.st = "ok"
              /\ \A ch \in 1..3 :
                    /\ Len(cEnc.coefs[ch]) = N
                    /\ \A k \in 1..N :
                          cEnc.coefs[ch][k] = CoefRow(Origin(k).i, Origin(k).j)
        /\ cPc = "decoded" =>
              /\ cDec.st = "ok"
              /\ \A ch \in 1..3 :
                    /\ Len(cDec.raster.planes[ch]) = N
                    /\ \A k \in 1..N :
                          LET blk == cDec.raster.planes[ch][k]
                          IN  /\ blk.row = cEnc.coefs[ch][k]
                              /\ blk.i = Origin(k).i /\ blk.j = Origin(k).j

\* A raster of 3 by 2 blocks, neither side a multiple of 8, encoded and decoded.
C9_Witness ==
    /\ cPc = "decoded" /\ cDec.st = "ok"
    /\ cIm.w = 17 /\ cIm.h = 9
    /\ Len(cDec.raster.planes[1]) = 6
    /\ cDec.raster.planes[1][4].i = 8 /\ cDec.raster.planes[1][4].j = 0

(***************************************************************************)
(* views.py, models.py: compress_view and CompressionRecord.               *)
(*                                                                         *)
(* An upload is one of the files Uploads; the random suffix of its         *)
(* tmp_name is drawn from Suffixes, and the uploads of the model share one *)
(* name, so that tmp_path and out_path are decided by the suffix.          *)
(***************************************************************************)
Uploads == 1..3
Suffixes == 1..2
Requests == 1..NumRequests

\* What Image.open finds in an upload: an 8x8 raster, a 16x8 raster, and a
\* file that is no image.
UploadImage(c) ==
    IF c = 1 THEN [valid |-> TRUE, size |-> 200, w |-> 8, h |-> 8, px |-> <<0>>]
    ELSE IF c = 2 THEN [valid |-> TRUE, size |-> 400, w |-> 16, h |-> 8, px |-> <<255, 0>>]
    ELSE [valid |-> FALSE, size |-> 10, w |-> 1, h |-> 1, px |-> <<>>]

\* CompressionRecord.compute_md5: a digest of the file's bytes.  Digests are
\* fewer than files: uploads 1 and 3 share one.
compute_md5(c) == c % 2

\* request.POST.get('quality', 50) and request.POST.get('down', 2)
PostQualities == {50, 0}
DefaultDown == 2

\* CompressionRecord.save: compression_ratio, in hundredths of a percent.
compression_ratio(original_size, compressed_size) ==
    IF original_size /= 0 /\ compressed_size /= 0
        THEN RoundHalfEven((original_size - compressed_size) * 10000, original_size)
        ELSE 0

\* The 'saved' figure of a response, in hundredths of a percent.
saved_percent(original_bytes, out_bytes) ==
    IF original_bytes > 0
        THEN RoundHalfEven((original_bytes - out_bytes) * 10000, original_bytes)
        ELSE 0

\* CompressionRecord.objects.filter(file_hash=file_hash).first()
FirstWithHash(records, file_hash) ==
    LET hits == {k \in 1..Len(records) : records[k].file_hash = file_hash}
    IN  IF hits = {} THEN <<>>
        ELSE <<records[CHOOSE k \in hits : \A k2 \in hits : k <= k2]>>

\* CompressionRecord.objects.create(...): the row is inserted unless another
\* row has its file_hash (unique=True), in which case the insert raises.
create_nocheck(records, row) ==
    [st |-> "ok", id |-> Len(records) + 1,
     records |-> Append(records, [row EXCEPT !.id = Len(records) + 1])]

create(records, row) ==
    IF \E k \in 1..Len(records) : records[k].file_hash = row.file_hash
        THEN [st |-> "error", id |-> 0, records |-> records]
        ELSE [st |-> "ok", id |-> Len(records) + 1,
              records |-> Append(records, [row EXCEPT !.id = Len(records) + 1])]

\* A request's locals before line 46 has run; no digest is negative.
NoHash == 0 - 1
NoLocal == [file_hash |-> NoHash, stats |-> <<>>]
NoResp == [kind |-> NoValue]

Finish(r, resp) ==
    /\ vResp' = [vResp EXCEPT ![r] = resp]
    /\ vPc' = [vPc EXCEPT ![r] = "done"]

\* Lines 25-26: a request that is no POST or carries no file.
RejectRequest(r) ==
    /\ vPc[r] = "new" /\ ~vReq[r].has_file
    /\ Finish(r, [kind |-> "file required"])
    /\ UNCHANGED <<vReq, vTmp, vOut, vRecords, vLocal, quantVars, zigVars, codecVars>>

\* Lines 28-43: the upload is written to tmp_path.
SaveUpload(r) ==
    /\ vPc[r] = "new" /\ vReq[r].has_file
    /\ vTmp' = [vTmp EXCEPT ![vReq[r].suffix] = <<vReq[r].upload>>]
    /\ vPc' = [vPc EXCEPT ![r] = "saved"]
    /\ UNCHANGED <<vReq, vOut, vRecords, vLocal, vResp, quantVars, zigVars, codecVars>>

\* Line 46: the hash of what tmp_path holds now.
ComputeHash(r) ==
    /\ vPc[r] = "saved"
    /\ vLocal' = [vLocal EXCEPT ![r].file_hash = compute_md5(vTmp[vReq[r].suffix][1])]
    /\ vPc' = [vPc EXCEPT ![r] = "hashed"]
    /\ UNCHANGED <<vReq, vTmp, vOut, vRecords, vResp, quantVars, zigVars, codecVars>>

\* Lines 49-65: the duplicate check and the response for a duplicate.
CheckDuplicate(r) ==
    /\ vPc[r] = "hashed"
    /\ LET existing == FirstWithHash(vRecords, vLocal[r].file_hash)
       IN  IF existing /= <<>>
               THEN Finish(r, [kind |-> "File already compressed",
                               record_id |-> existing[1].id,
                               stats |-> [original_bytes |-> existing[1].original_size,
                                          out_bytes |-> existing[1].compressed_size,
                                          compression_ratio |-> existing[1].compression_ratio,
                                          quality |-> existing[1].quality,
                                          down |-> existing[1].down,
                                          saved |-> saved_percent(existing[1].original_size,
                                                                  existing[1].compressed_size)]])
               ELSE /\ vPc' = [vPc EXCEPT ![r] = "checked"]
                    /\ UNCHANGED vResp
    /\ UNCHANGED <<vReq, vTmp, vOut, vRecords, vLocal, quantVars, zigVars, codecVars>>

\* Lines 68-75: compress_image on what tmp_path holds now.
CompressUpload(r) ==
    /\ vPc[r] = "checked"
    /\ LET path == vReq[r].suffix
           got == compress_image(UploadImage(vTmp[path][1]), vOut[path],
                                 vReq[r].quality, vReq[r].down)
       IN  /\ vOut' = [vOut EXCEPT ![path] = got.file]
           /\ IF got.st = "ok"
                  THEN /\ vLocal' = [vLocal EXCEPT ![r].stats = got.stats]
                       /\ vPc' = [vPc EXCEPT ![r] = "compressed"]
                       /\ UNCHANGED vResp
                  ELSE /\ Finish(r, [kind |-> "compression failed"])
                       /\ UNCHANGED vLocal
    /\ UNCHANGED <<vReq, vTmp, vRecords, quantVars, zigVars, codecVars>>

\* Lines 77-104: the record is created and the response built.
CreateRecord(r) ==
    /\ vPc[r] = "compressed"
    /\ LET stats == vLocal[r].stats
           rec == create(vRecords,
                         [id |-> 0,
                          file_hash |-> vLocal[r].file_hash,
                          quality |-> vReq[r].quality,
                          down |-> vReq[r].down,
                          original_size |-> stats.original_bytes,
                          compressed_size |-> stats.out_bytes,
                          payload_size |-> stats.payload_bytes,
                          base_size |-> stats.base_bytes,
                          width |-> stats.w, height |-> stats.h,
                          compression_ratio |->
                              compression_ratio(stats.original_bytes, stats.out_bytes),
                          output_file |-> vReq[r].suffix])
       IN  /\ vRecords' = rec.records
           /\ IF rec.st = "ok"
                  THEN Finish(r, [kind |-> "Compression successful",
                                  record_id |-> rec.id,
                                  stats |-> [original_bytes |-> stats.original_bytes,
                                             base_bytes |-> stats.base_bytes,
                                             payload_bytes |-> stats.payload_bytes,
                                             out_bytes |-> stats.out_bytes,
                                             w |-> stats.w, h |-> stats.h,
                                             down |-> stats.down,
                                             quality |-> stats.quality,
                                             saved |-> saved_percent(stats.original_bytes,
                                                                     stats.out_bytes)]])
                  ELSE Finish(r, [kind |-> "failed to save record"])
    /\ UNCHANGED <<vReq, vTmp, vOut, vLocal, quantVars, zigVars, codecVars>>

(***************************************************************************)
(* Specification SpecView: NumRequests concurrent compress_view requests,  *)
(* interleaved at their file and database operations.                      *)
(***************************************************************************)
\* Every upload with the default quality, upload 1 also with the quality that
\* quant_matrix refuses, and one request without a file.
ViewRequests ==
    {req \in [upload : Uploads, has_file : {TRUE}, suffix : Suffixes,
              quality : PostQualities, down : {DefaultDown}] :
        req.quality = 50 \/ req.upload = 1}
    \cup {[upload |-> 1, has_file |-> FALSE, suffix |-> 1,
           quality |-> 50, down |-> DefaultDown]}

InitView ==
    /\ vReq \in [Requests -> ViewRequests]
    /\ vPc = [r \in Requests |-> "new"]
    /\ vTmp = [p \in Suffixes |-> <<>>]
    /\ vOut = [p \in Suffixes |-> NoFile]
    /\ vRecords = <<>>
    /\ vLocal = [r \in Requests |-> NoLocal]
    /\ vResp = [r \in Requests |-> NoResp]
    /\ QuantIdle /\ ZigIdle /\ CodecIdle

NextView ==
    \/ \E r \in Requests : RejectRequest(r)
    \/ \E r \in Requests : SaveUpload(r)
    \/ \E r \in Requests : ComputeHash(r)
    \/ \E r \in Requests : CheckDuplicate(r)
    \/ \E r \in Requests : CompressUpload(r)
    \/ \E r \in Requests : CreateRecord(r)

SpecView == InitView /\ [][NextView]_vars

Recorded(file_hash) == \E k \in 1..Len(vRecords) : vRecords[k].file_hash = file_hash

UniqueHashes(records) ==
    \A k1, k2 \in 1..Len(records) :
        records[k1].file_hash = records[k2].file_hash => k1 = k2

Ends(r) == vPc[r] /= "done" /\ vPc'[r] = "done"

ReturnsExisting(r) ==
    /\ vResp'[r].kind = "File already compressed"
    /\ \E k \in 1..Len(vRecords) :
          /\ vRecords[k].file_hash = vLocal[r].file_hash
          /\ vResp'[r].record_id = vRecords[k].id
          /\ vResp'[r].stats.out_bytes = vRecords[k].compressed_size
          /\ vResp'[r].stats.original_bytes = vRecords[k].original_size
          /\ vResp'[r].stats.quality = vRecords[k].quality
          /\ vResp'[r].stats.down = vRecords[k].down

Next == NextQuant \/ NextZigzag \/ NextCodec \/ NextView
Spec == InitCodec /\ [][Next]_vars
====
